---- MODULE Spec2Model ----
(***************************************************************************)
(* Row store and index engine (GridDataManager) of the resizable grid.     *)
(*                                                                         *)
(* JavaScript values are tagged records, strings are sequences of          *)
(* one-character strings, so that String(), Number(), toLowerCase(),       *)
(* includes(), localeCompare() and Date parsing are computed, not assumed. *)
(* The characters used are the space, "-", the digits and the ASCII        *)
(* letters.                                                                *)
(***************************************************************************)
EXTENDS Integers, Sequences, FiniteSets, TLC

\* ------------------------------------------------------------------------
\* JavaScript values (RowData is Record<string, any>)
\* ------------------------------------------------------------------------
Undef == [t |-> "undefined", n |-> 0, s |-> <<>>]
Null == [t |-> "null", n |-> 0, s |-> <<>>]
NaN == [t |-> "nan", n |-> 0, s |-> <<>>]
Num(k) == [t |-> "number", n |-> k, s |-> <<>>]
Str(x) == [t |-> "string", n |-> 0, s |-> x]

\* typeof v === 'number' (NaN is a number)
IsNumber(v) == v.t \in {"number", "nan"}

\* the truthiness test of `if (v)` and `v || ''`
Truthy(v) ==
  CASE v.t = "number" -> v.n # 0
    [] v.t = "string" -> v.s # <<>>
    [] OTHER -> FALSE

Digits == <<"0", "1", "2", "3", "4", "5", "6", "7", "8", "9">>
LowerChars == <<"a", "b", "c", "d", "e", "f", "g", "h", "i", "j", "k", "l", "m",
                "n", "o", "p", "q", "r", "s", "t", "u", "v", "w", "x", "y", "z">>
UpperChars == <<"A", "B", "C", "D", "E", "F", "G", "H", "I", "J", "K", "L", "M",
                "N", "O", "P", "Q", "R", "S", "T", "U", "V", "W", "X", "Y", "Z">>

Range(seq) == {seq[i] : i \in 1..Len(seq)}
IndexOf(seq, c) == CHOOSE i \in 1..Len(seq) : seq[i] = c
IsDigit(c) == c \in Range(Digits)
DigitVal(c) == IndexOf(Digits, c) - 1

\* String.prototype.toLowerCase on one character, then on a string
ToLowerChar(c) == IF c \in Range(UpperChars) THEN LowerChars[IndexOf(UpperChars, c)] ELSE c
ToLowerCase(s) == [i \in 1..Len(s) |-> ToLowerChar(s[i])]

\* the order of the UTF-16 code units of the characters used
CodeUnitOrder == <<" ", "-">> \o Digits \o UpperChars \o LowerChars
CodeUnit(c) == IndexOf(CodeUnitOrder, c)

\* the primary order of the root collation: space, punctuation, digits, letters
CollationOrder == <<" ", "-">> \o Digits \o LowerChars
Primary(c) == IndexOf(CollationOrder, ToLowerChar(c))
Tertiary(c) == IF c \in Range(UpperChars) THEN 1 ELSE 0

RECURSIVE NatToString(_)
NatToString(n) ==
  IF n < 10 THEN <<Digits[n + 1]>>
  ELSE NatToString(n \div 10) \o <<Digits[(n % 10) + 1]>>

\* String(v)
JsString(v) ==
  CASE v.t = "undefined" -> <<"u", "n", "d", "e", "f", "i", "n", "e", "d">>
    [] v.t = "null" -> <<"n", "u", "l", "l">>
    [] v.t = "nan" -> <<"N", "a", "N">>
    [] v.t = "number" -> IF v.n < 0 THEN <<"-">> \o NatToString(-v.n) ELSE NatToString(v.n)
    [] OTHER -> v.s

RECURSIVE TrimLeft(_)
TrimLeft(s) == IF s # <<>> /\ Head(s) = " " THEN TrimLeft(Tail(s)) ELSE s
RECURSIVE TrimRight(_)
TrimRight(s) ==
  IF s # <<>> /\ s[Len(s)] = " " THEN TrimRight(SubSeq(s, 1, Len(s) - 1)) ELSE s

RECURSIVE DigitsValue(_)
DigitsValue(s) ==
  IF s = <<>> THEN 0 ELSE DigitsValue(SubSeq(s, 1, Len(s) - 1)) * 10 + DigitVal(s[Len(s)])

AllDigits(s) == s # <<>> /\ \A i \in 1..Len(s) : IsDigit(s[i])

\* Number(string): StringToNumber on trimmed text, decimal integers only
StringToNumber(s) ==
  LET x == TrimRight(TrimLeft(s)) IN
  IF x = <<>> THEN Num(0)
  ELSE IF AllDigits(x) THEN Num(DigitsValue(x))
  ELSE IF Head(x) = "-" /\ AllDigits(Tail(x)) THEN Num(-DigitsValue(Tail(x)))
  ELSE IF Head(x) = "+" /\ AllDigits(Tail(x)) THEN Num(DigitsValue(Tail(x)))
  ELSE NaN

\* Number(v)
ToNumber(v) ==
  CASE v.t = "undefined" -> NaN
    [] v.t = "null" -> Num(0)
    [] v.t = "string" -> StringToNumber(v.s)
    [] OTHER -> v

\* isNaN(v)
IsNaN(v) == ToNumber(v).t = "nan"

\* a - b on numbers
Minus(a, b) == IF a.t = "nan" \/ b.t = "nan" THEN NaN ELSE Num(a.n - b.n)
Negate(a) == IF a.t = "nan" THEN NaN ELSE Num(-a.n)

\* the sign Array.prototype.sort reads off a comparator's result (NaN as +0)
Sign(v) == IF v.t = "nan" THEN 0 ELSE IF v.n < 0 THEN -1 ELSE IF v.n > 0 THEN 1 ELSE 0

\* lexicographic comparison of two sequences of ranks: -1, 0 or 1
RECURSIVE LexCompare(_, _)
LexCompare(a, b) ==
  IF a = <<>> THEN (IF b = <<>> THEN 0 ELSE -1)
  ELSE IF b = <<>> THEN 1
  ELSE IF Head(a) < Head(b) THEN -1
  ELSE IF Head(a) > Head(b) THEN 1
  ELSE LexCompare(Tail(a), Tail(b))

\* a.localeCompare(b): primary difference first, then case (lower before upper)
LocaleCompare(a, b) ==
  LET p == LexCompare([i \in 1..Len(a) |-> Primary(a[i])], [i \in 1..Len(b) |-> Primary(b[i])])
  IN IF p # 0 THEN p
     ELSE LexCompare([i \in 1..Len(a) |-> Tertiary(a[i])], [i \in 1..Len(b) |-> Tertiary(b[i])])

\* a < b of the language: both strings by code units, otherwise numerically
JsLess(a, b) ==
  IF a.t = "string" /\ b.t = "string"
  THEN LexCompare([i \in 1..Len(a.s) |-> CodeUnit(a.s[i])],
                  [i \in 1..Len(b.s) |-> CodeUnit(b.s[i])]) < 0
  ELSE LET x == ToNumber(a)
           y == ToNumber(b)
       IN x.t = "number" /\ y.t = "number" /\ x.n < y.n

\* a === b
StrictEquals(a, b) == a.t # "nan" /\ a = b

\* s.includes(q), s.startsWith(q), s.endsWith(q)
Includes(s, q) ==
  \E i \in 0..(Len(s) - Len(q)) : SubSeq(s, i + 1, i + Len(q)) = q
StartsWith(s, q) == Len(q) <= Len(s) /\ SubSeq(s, 1, Len(q)) = q
EndsWith(s, q) == Len(q) <= Len(s) /\ SubSeq(s, Len(s) - Len(q) + 1, Len(s)) = q

\* ------------------------------------------------------------------------
\* new Date(v).getTime()
\* ------------------------------------------------------------------------
IsLeapYear(y) == (y % 4 = 0 /\ y % 100 # 0) \/ y % 400 = 0
DaysInMonth(y, m) ==
  IF m = 2 THEN (IF IsLeapYear(y) THEN 29 ELSE 28)
  ELSE IF m \in {4, 6, 9, 11} THEN 30 ELSE 31

\* days from 1970-01-01 to the civil date y-m-d
DaysFromCivil(y, m, d) ==
  LET yy == IF m <= 2 THEN y - 1 ELSE y
      era == yy \div 400
      yoe == yy - era * 400
      mp == IF m > 2 THEN m - 3 ELSE m + 9
      doy == (153 * mp + 2) \div 5 + d - 1
      doe == yoe * 365 + yoe \div 4 - yoe \div 100 + doy
  IN era * 146097 + doe - 719468

\* Date.parse of the date-only form YYYY-MM-DD (UTC midnight); other text
\* made of these characters is not a date
DateParse(s) ==
  IF Len(s) = 10 /\ s[5] = "-" /\ s[8] = "-"
     /\ AllDigits(SubSeq(s, 1, 4)) /\ AllDigits(SubSeq(s, 6, 7)) /\ AllDigits(SubSeq(s, 9, 10))
  THEN LET y == DigitsValue(SubSeq(s, 1, 4))
           m == DigitsValue(SubSeq(s, 6, 7))
           d == DigitsValue(SubSeq(s, 9, 10))
       IN IF m \in 1..12 /\ d \in 1..DaysInMonth(y, m)
          THEN Num(DaysFromCivil(y, m, d) * 86400000)
          ELSE NaN
  ELSE NaN

DateGetTime(v) ==
  CASE v.t = "string" -> DateParse(v.s)
    [] v.t = "number" -> v
    [] v.t = "null" -> Num(0)
    [] OTHER -> NaN

\* ------------------------------------------------------------------------
\* GridDataManager: schema constants and containers
\* ------------------------------------------------------------------------
DATE_COLUMNS == <<"createdAt", "updatedAt", "date">>
SEARCHABLE_COLUMNS == <<"name", "description", "email", "notes", "title">>
NUMERIC_COLUMNS == <<"id", "amount", "price", "quantity">>

\* the uniqueIdField the manager is constructed with
idField == "id"

\* currentSort.column before any sort (null)
NullColumn == "<null>"

\* row[col] on a plain object, Map.get / Map.set / Map.delete
Get(row, col) == IF col \in DOMAIN row THEN row[col] ELSE Undef
MapSet(m, k, v) == [x \in (DOMAIN m) \cup {k} |-> IF x = k THEN v ELSE m[x]]
MapDelete(m, k) == [x \in (DOMAIN m) \ {k} |-> m[x]]
EmptyMap == [x \in {} |-> Undef]

\* Array.prototype.filter with the predicate given as the set of kept elements
RECURSIVE FilterSeq(_, _)
FilterSeq(seq, keep) ==
  IF seq = <<>> THEN <<>>
  ELSE (IF Head(seq) \in keep THEN <<Head(seq)>> ELSE <<>>) \o FilterSeq(Tail(seq), keep)

\* parts.join(' ')
RECURSIVE JoinSpace(_)
JoinSpace(parts) ==
  IF parts = <<>> THEN <<>>
  ELSE IF Len(parts) = 1 THEN parts[1]
  ELSE parts[1] \o <<" ">> \o JoinSpace(Tail(parts))

\* Create searchable string from row data
buildSearchString(row) ==
  JoinSpace([i \in 1..Len(SEARCHABLE_COLUMNS) |->
    LET v == Get(row, SEARCHABLE_COLUMNS[i])
    IN ToLowerCase(JsString(IF Truthy(v) THEN v ELSE Str(<<>>)))])

\* DATE_COLUMNS.forEach of precomputeSortValues, from column i on
RECURSIVE precomputeDates(_, _, _, _)
precomputeDates(sv, id, row, i) ==
  IF i > Len(DATE_COLUMNS) THEN sv
  ELSE LET colName == DATE_COLUMNS[i]
           sv1 == IF colName \in DOMAIN sv THEN sv ELSE MapSet(sv, colName, EmptyMap)
           sv2 == IF Truthy(Get(row, colName))
                  THEN MapSet(sv1, colName,
                              MapSet(sv1[colName], id, DateGetTime(Get(row, colName))))
                  ELSE sv1
       IN precomputeDates(sv2, id, row, i + 1)

\* NUMERIC_COLUMNS.forEach of precomputeSortValues, from column i on
RECURSIVE precomputeNumerics(_, _, _, _)
precomputeNumerics(sv, id, row, i) ==
  IF i > Len(NUMERIC_COLUMNS) THEN sv
  ELSE LET colName == NUMERIC_COLUMNS[i]
           v == Get(row, colName)
           sv1 == IF colName \in DOMAIN sv THEN sv ELSE MapSet(sv, colName, EmptyMap)
           numValue == IF IsNumber(v) THEN v ELSE ToNumber(v)
           sv2 == IF v.t \notin {"undefined", "null"} /\ ~IsNaN(numValue)
                  THEN MapSet(sv1, colName, MapSet(sv1[colName], id, numValue))
                  ELSE sv1
       IN precomputeNumerics(sv2, id, row, i + 1)

\* Pre-compute special sort values (like date timestamps)
precomputeSortValues(sv, id, row) ==
  precomputeNumerics(precomputeDates(sv, id, row, 1), id, row, 1)

\* ------------------------------------------------------------------------
\* Array.prototype.sort(comparefn) on the short arrays of the model.  A NaN
\* result counts as 0.  With a consistent comparator every engine gives the
\* stable sorted order; with an inconsistent one the order is the engine's.
\* The two engines are the binary insertion sort with run detection (V8,
\* arrays under 64 elements) and the linear insertion sort (SpiderMonkey,
\* arrays under 24 elements).  cmp[<<a, b>>] is the sign of comparefn(a, b).
\* ------------------------------------------------------------------------
SortEngines == {"binaryInsertion", "linearInsertion"}

Reverse(seq) == [i \in 1..Len(seq) |-> seq[Len(seq) + 1 - i]]

\* the array with the element at position from moved to position to <= from
MoveTo(a, from, to) ==
  SubSeq(a, 1, to - 1) \o <<a[from]>> \o SubSeq(a, to, from - 1) \o SubSeq(a, from + 1, Len(a))

\* CountAndMakeRun: the length of the run that starts the array
RECURSIVE CountRun(_, _, _, _)
CountRun(a, idx, isDescending, cmp) ==
  IF idx > Len(a) THEN idx - 1
  ELSE LET order == cmp[<<a[idx], a[idx - 1]>>]
       IN IF (isDescending /\ order >= 0) \/ (~isDescending /\ order < 0)
          THEN idx - 1
          ELSE CountRun(a, idx + 1, isDescending, cmp)

\* the binary search of BinaryInsertionSort, on positions left+1..right
RECURSIVE BinaryPos(_, _, _, _, _)
BinaryPos(a, pivot, left, right, cmp) ==
  IF left >= right THEN left
  ELSE LET mid == left + ((right - left) \div 2)
       IN IF cmp[<<pivot, a[mid + 1]>>] < 0
          THEN BinaryPos(a, pivot, left, mid, cmp)
          ELSE BinaryPos(a, pivot, mid + 1, right, cmp)

RECURSIVE BinaryInsertionFrom(_, _, _)
BinaryInsertionFrom(a, start, cmp) ==
  IF start > Len(a) THEN a
  ELSE BinaryInsertionFrom(MoveTo(a, start, BinaryPos(a, a[start], 0, start - 1, cmp) + 1),
                           start + 1, cmp)

BinaryInsertionSort(a, cmp) ==
  LET isDescending == cmp[<<a[2], a[1]>>] < 0
      run == CountRun(a, 3, isDescending, cmp)
      made == IF isDescending THEN Reverse(SubSeq(a, 1, run)) \o SubSeq(a, run + 1, Len(a)) ELSE a
  IN BinaryInsertionFrom(made, run + 1, cmp)

\* the scan of InsertionSort: the position after which the item is put
RECURSIVE LinearPos(_, _, _, _)
LinearPos(a, item, j, cmp) ==
  IF j >= 1 /\ cmp[<<a[j], item>>] > 0 THEN LinearPos(a, item, j - 1, cmp) ELSE j

RECURSIVE LinearInsertionFrom(_, _, _)
LinearInsertionFrom(a, i, cmp) ==
  IF i > Len(a) THEN a
  ELSE LinearInsertionFrom(MoveTo(a, i, LinearPos(a, a[i], i - 1, cmp) + 1), i + 1, cmp)

ArraySort(engine, a, cmp) ==
  IF Len(a) < 2 THEN a
  ELSE IF engine = "binaryInsertion" THEN BinaryInsertionSort(a, cmp)
  ELSE LinearInsertionFrom(a, 2, cmp)

\* ------------------------------------------------------------------------
\* GridDataManager: state and methods.  A method is an operator from the
\* manager's fields (a record st) to its fields after the call.
\* ------------------------------------------------------------------------
VARIABLES
  rowMap,         \* Map<RowId, RowData>
  rowKeys,        \* the keys of rowMap in the order the Map iterates them (insertion order)
  displayIndex,   \* RowId[]
  filteredIndex,  \* RowId[]
  searchIndex,    \* Map<RowId, string>
  sortValues,     \* Map<string, Map<RowId, any>>
  activeFilters,  \* FilterConfig[]
  currentSort,    \* { column, direction }
  sortEngine,     \* the engine that runs Array.prototype.sort, fixed for a run
  searchQuery,    \* the query of the latest filterBySearch call (the manager keeps none)
  last,           \* the last call: its name, its arguments, whether it returned a state
  pre,            \* the manager's fields and the call before the last call
  nops,           \* the number of calls made
  ctl,            \* the state of the useGridManager hook (React state)
  preCtl,         \* the hook's state before the last call
  held            \* the rows of a returned snapshot that a caller holds on to

engineVars == <<rowMap, displayIndex, filteredIndex, searchIndex, sortValues,
                activeFilters, currentSort>>
vars == <<rowMap, rowKeys, displayIndex, filteredIndex, searchIndex, sortValues,
          activeFilters, currentSort, sortEngine, searchQuery, last, pre, nops,
          ctl, preCtl, held>>

Fields ==
  [rowMap |-> rowMap, displayIndex |-> displayIndex, filteredIndex |-> filteredIndex,
   searchIndex |-> searchIndex, sortValues |-> sortValues,
   activeFilters |-> activeFilters, currentSort |-> currentSort]

\* the keys of a Map after calls of set and delete: a key that stays keeps
\* its place, a key set for the first time comes last (a call sets one key
\* at most)
keysAfter(keys, map) ==
  LET kept == SelectSeq(keys, LAMBDA k : k \in DOMAIN map)
      new == DOMAIN map \ Range(keys)
  IN IF new = {} THEN kept ELSE Append(kept, CHOOSE k \in new : TRUE)

\* the keys of the Map the constructor fills: the identifiers of the rows in
\* the order of their first set
keysOf(ids) ==
  LET F[i \in 0..Len(ids)] ==
        IF i = 0 THEN <<>>
        ELSE IF ids[i] \in Range(F[i - 1]) THEN F[i - 1] ELSE Append(F[i - 1], ids[i])
  IN F[Len(ids)]

\* the rows a caller holds after the manager's rowMap has become map: a held
\* row is the object stored under its key (rowMap.set stores one object per
\* key and updateCell writes into it), so it shows what the store holds for
\* as long as the key is stored; once deleted it is no longer the store's
\* object and keeps what it showed
seenAfter(rows, map) ==
  [i \in 1..Len(rows) |->
     IF rows[i].live /\ rows[i].key \in DOMAIN map
     THEN [rows[i] EXCEPT !.row = map[rows[i].key]]
     ELSE [rows[i] EXCEPT !.live = FALSE]]

\* the field initialisers of the class
NewFields ==
  [rowMap |-> EmptyMap, displayIndex |-> <<>>, filteredIndex |-> <<>>,
   searchIndex |-> EmptyMap, sortValues |-> EmptyMap, activeFilters |-> <<>>,
   currentSort |-> [column |-> NullColumn, direction |-> "none"]]

\* rows.forEach of the constructor, from row i on
RECURSIVE constructRows(_, _, _)
constructRows(st, rows, i) ==
  IF i > Len(rows) THEN st
  ELSE LET row == rows[i]
           id == JsString(Get(row, idField))
       IN constructRows(
            [st EXCEPT !.rowMap = MapSet(st.rowMap, id, row),
                       !.displayIndex = Append(st.displayIndex, id),
                       !.searchIndex = MapSet(st.searchIndex, id, buildSearchString(row)),
                       !.sortValues = precomputeSortValues(st.sortValues, id, row)],
            rows, i + 1)

\* constructor(rows, uniqueIdField)
construct(rows) ==
  LET st == constructRows(NewFields, rows, 1)
  IN [st EXCEPT !.filteredIndex = st.displayIndex]

\* the predicate of one filter on one row (the switch of applyCurrentFilters)
filterMatches(row, filter) ==
  LET value == Get(row, filter.column)
      lower(v) == ToLowerCase(JsString(v))
  IN CASE filter.operator = "eq" -> StrictEquals(value, filter.value)
       [] filter.operator = "neq" -> ~StrictEquals(value, filter.value)
       [] filter.operator = "gt" -> JsLess(filter.value, value)
       [] filter.operator = "lt" -> JsLess(value, filter.value)
       [] filter.operator = "contains" -> Includes(lower(value), lower(filter.value))
       [] filter.operator = "starts" -> StartsWith(lower(value), lower(filter.value))
       [] filter.operator = "ends" -> EndsWith(lower(value), lower(filter.value))
       [] OTHER -> TRUE

\* the loop over activeFilters of applyCurrentFilters, from filter i on
RECURSIVE applyFiltersFrom(_, _, _)
applyFiltersFrom(st, index, i) ==
  IF i > Len(st.activeFilters) THEN index
  ELSE applyFiltersFrom(st,
         FilterSeq(index, {id \in Range(index) : filterMatches(st.rowMap[id], st.activeFilters[i])}),
         i + 1)

\* applyCurrentFilters with every filter run on displayIndex instead of on the
\* narrowed filteredIndex: only the last filter takes effect
applyCurrentFiltersLastOnly(st) ==
  [st EXCEPT !.filteredIndex =
     IF st.activeFilters = <<>> THEN st.displayIndex
     ELSE FilterSeq(st.displayIndex,
            {id \in Range(st.displayIndex) :
               filterMatches(st.rowMap[id], st.activeFilters[Len(st.activeFilters)])})]

\* applyCurrentFilters(skipSearch): the parameter is never read
applyCurrentFilters(st) ==
  [st EXCEPT !.filteredIndex = applyFiltersFrom(st, st.displayIndex, 1)]

\* the comparator sortBy hands to displayIndex.sort: the sign of its result
compareRows(st, column, direction, idA, idB) ==
  LET rowA == st.rowMap[idA]
      rowB == st.rowMap[idB]
  IN IF direction = "none"
     THEN LocaleCompare(JsString(Get(rowA, idField)), JsString(Get(rowB, idField)))
     ELSE IF column \in DOMAIN st.sortValues
     THEN LET valueA == IF idA \in DOMAIN st.sortValues[column]
                        THEN st.sortValues[column][idA] ELSE Num(0)
              valueB == IF idB \in DOMAIN st.sortValues[column]
                        THEN st.sortValues[column][idB] ELSE Num(0)
          IN IF direction = "asc" THEN Sign(Minus(valueA, valueB))
             ELSE Sign(Minus(valueB, valueA))
     ELSE LET valueA == Get(rowA, column)
              valueB == Get(rowB, column)
          IN IF IsNumber(valueA) /\ IsNumber(valueB)
             THEN (IF direction = "asc" THEN Sign(Minus(valueA, valueB))
                   ELSE Sign(Minus(valueB, valueA)))
             ELSE LET strA == JsString(IF Truthy(valueA) THEN valueA ELSE Str(<<>>))
                      strB == JsString(IF Truthy(valueB) THEN valueB ELSE Str(<<>>))
                      result == LocaleCompare(strA, strB)
                  IN IF direction = "asc" THEN result ELSE -result

\* a comparator that never answers 0 (a < b ? -1 : 1)
sortComparatorNoTies(st, column, direction) ==
  [p \in Range(st.displayIndex) \X Range(st.displayIndex) |->
     IF compareRows(st, column, direction, p[1], p[2]) < 0 THEN -1 ELSE 1]

\* the comparator as the table of its signs on the identifiers being sorted
sortComparator(st, column, direction) ==
  [p \in Range(st.displayIndex) \X Range(st.displayIndex) |->
     compareRows(st, column, direction, p[1], p[2])]

\* sortBy(column, direction)
sortBy(st, column, direction) ==
  LET st1 == [st EXCEPT !.currentSort = [column |-> column, direction |-> direction]]
      st2 == [st1 EXCEPT !.displayIndex =
                ArraySort(sortEngine, st1.displayIndex, sortComparator(st1, column, direction))]
  IN applyCurrentFilters(st2)

\* getCurrentState()
getCurrentState(st) ==
  [filteredRows |-> [i \in 1..Len(st.filteredIndex) |-> st.rowMap[st.filteredIndex[i]]],
   totalRows |-> Cardinality(DOMAIN st.rowMap),
   filteredCount |-> Len(st.filteredIndex),
   currentSort |-> st.currentSort,
   activeFilters |-> st.activeFilters]

\* Array.prototype.slice(start, end) on 0-based positions: a negative
\* position counts from the end of the array
Slice(seq, start, end) ==
  LET len == Len(seq)
      from == IF start < 0 THEN (IF len + start > 0 THEN len + start ELSE 0)
              ELSE (IF start < len THEN start ELSE len)
      to == IF end < 0 THEN (IF len + end > 0 THEN len + end ELSE 0)
            ELSE (IF end < len THEN end ELSE len)
  IN IF from < to THEN SubSeq(seq, from + 1, to) ELSE <<>>

\* getVisibleRows(startIndex, pageSize): the rows of a slice of filteredIndex,
\* an identifier without a row dropped
getVisibleRows(st, startIndex, pageSize) ==
  LET ids == Slice(st.filteredIndex, startIndex, startIndex + pageSize)
      found == SelectSeq(ids, LAMBDA id : id \in DOMAIN st.rowMap)
  IN [i \in 1..Len(found) |-> st.rowMap[found[i]]]

\* what a method returns: null (ok = FALSE) or a state, and the fields it leaves
Returns(ok, st) == [ok |-> ok, st |-> st]

\* a refresh that never writes: the value cached first stays
updateSortValueKeepsOld(st, id, column, value) == st.sortValues

\* the refresh of sortValues in updateCell
updateSortValue(st, id, column, value) ==
  IF column \in DOMAIN st.sortValues
  THEN IF column \in Range(DATE_COLUMNS) /\ Truthy(value)
       THEN MapSet(st.sortValues, column, MapSet(st.sortValues[column], id, DateGetTime(value)))
       ELSE IF column \in Range(NUMERIC_COLUMNS) /\ value.t \notin {"null", "undefined"}
                 /\ ~IsNaN(ToNumber(value))
       THEN MapSet(st.sortValues, column, MapSet(st.sortValues[column], id, ToNumber(value)))
       ELSE st.sortValues
  ELSE st.sortValues

\* updateCell that creates the row when the identifier is not stored
updateCellUpsert(st, id, column, value) ==
  LET old == IF id \in DOMAIN st.rowMap THEN st.rowMap[id] ELSE EmptyMap
      row == MapSet(old, column, value)
      st1 == [st EXCEPT !.rowMap = MapSet(st.rowMap, id, row)]
      st3 == [st1 EXCEPT !.sortValues = updateSortValue(st1, id, column, value)]
  IN Returns(TRUE, applyCurrentFilters(st3))

\* updateCell that leaves the search string of the row as it was
updateCellKeepsSearchString(st, id, column, value) ==
  IF id \notin DOMAIN st.rowMap THEN Returns(FALSE, st)
  ELSE LET row == MapSet(st.rowMap[id], column, value)
           st1 == [st EXCEPT !.rowMap = MapSet(st.rowMap, id, row)]
           st3 == [st1 EXCEPT !.sortValues = updateSortValue(st1, id, column, value)]
           st4 == IF st3.currentSort.column = column /\ st3.currentSort.direction # "none"
                  THEN sortBy(st3, st3.currentSort.column, st3.currentSort.direction)
                  ELSE st3
       IN Returns(TRUE, applyCurrentFilters(st4))

\* updateCell that moves the row to the key of its new identifier
updateCellRekeys(st, id, column, value) ==
  IF id \notin DOMAIN st.rowMap THEN Returns(FALSE, st)
  ELSE LET row == MapSet(st.rowMap[id], column, value)
           key == IF column = idField THEN JsString(value) ELSE id
           st1 == [st EXCEPT !.rowMap = MapSet(MapDelete(st.rowMap, id), key, row),
                             !.displayIndex = [i \in 1..Len(@) |-> IF @[i] = id THEN key ELSE @[i]],
                             !.searchIndex = MapSet(MapDelete(st.searchIndex, id), key,
                                                    buildSearchString(row))]
           st3 == [st1 EXCEPT !.sortValues = updateSortValue(st1, key, column, value)]
       IN Returns(TRUE, applyCurrentFilters(st3))

\* updateCell(id, column, value)
updateCell(st, id, column, value) ==
  IF id \notin DOMAIN st.rowMap THEN Returns(FALSE, st)
  ELSE LET row == MapSet(st.rowMap[id], column, value)
           st1 == [st EXCEPT !.rowMap = MapSet(st.rowMap, id, row)]
           st2 == IF column \in Range(SEARCHABLE_COLUMNS)
                  THEN [st1 EXCEPT !.searchIndex = MapSet(st1.searchIndex, id, buildSearchString(row))]
                  ELSE st1
           st3 == [st2 EXCEPT !.sortValues = updateSortValue(st2, id, column, value)]
           st4 == IF st3.currentSort.column = column /\ st3.currentSort.direction # "none"
                  THEN sortBy(st3, st3.currentSort.column, st3.currentSort.direction)
                  ELSE st3
       IN Returns(TRUE, applyCurrentFilters(st4))

\* the column name read from undefined
UndefinedColumn == "<undefined>"

\* the truthiness of currentSort.column
ColumnTruthy(column) == column \notin {NullColumn, UndefinedColumn, ""}

\* addRow without the check for an identifier already stored
addRowUnchecked(st, row) ==
  LET id == JsString(Get(row, idField))
      st1 == [st EXCEPT !.rowMap = MapSet(st.rowMap, id, row),
                        !.displayIndex = Append(st.displayIndex, id),
                        !.searchIndex = MapSet(st.searchIndex, id, buildSearchString(row)),
                        !.sortValues = precomputeSortValues(st.sortValues, id, row)]
      st2 == IF ColumnTruthy(st1.currentSort.column) /\ st1.currentSort.direction # "none"
             THEN sortBy(st1, st1.currentSort.column, st1.currentSort.direction)
             ELSE st1
  IN Returns(TRUE, applyCurrentFilters(st2))

\* addRow(row)
addRow(st, row) ==
  LET id == JsString(Get(row, idField)) IN
  IF id \in DOMAIN st.rowMap THEN Returns(FALSE, st)
  ELSE LET st1 == [st EXCEPT !.rowMap = MapSet(st.rowMap, id, row),
                             !.displayIndex = Append(st.displayIndex, id),
                             !.searchIndex = MapSet(st.searchIndex, id, buildSearchString(row)),
                             !.sortValues = precomputeSortValues(st.sortValues, id, row)]
           st2 == IF ColumnTruthy(st1.currentSort.column) /\ st1.currentSort.direction # "none"
                  THEN sortBy(st1, st1.currentSort.column, st1.currentSort.direction)
                  ELSE st1
       IN Returns(TRUE, applyCurrentFilters(st2))

\* deleteRow that leaves filteredIndex as it was
deleteRowStaleFiltered(st, id) ==
  IF id \notin DOMAIN st.rowMap THEN Returns(FALSE, st)
  ELSE Returns(TRUE,
         [st EXCEPT !.rowMap = MapDelete(st.rowMap, id),
                    !.displayIndex = FilterSeq(st.displayIndex, Range(st.displayIndex) \ {id}),
                    !.searchIndex = MapDelete(st.searchIndex, id),
                    !.sortValues = [c \in DOMAIN st.sortValues |-> MapDelete(st.sortValues[c], id)]])

\* deleteRow that recomputes filteredIndex from the active filters
deleteRowRecompute(st, id) ==
  IF id \notin DOMAIN st.rowMap THEN Returns(FALSE, st)
  ELSE Returns(TRUE,
         applyCurrentFilters(
           [st EXCEPT !.rowMap = MapDelete(st.rowMap, id),
                      !.displayIndex = FilterSeq(st.displayIndex, Range(st.displayIndex) \ {id}),
                      !.searchIndex = MapDelete(st.searchIndex, id),
                      !.sortValues = [c \in DOMAIN st.sortValues |-> MapDelete(st.sortValues[c], id)]]))

\* deleteRow(id)
deleteRow(st, id) ==
  IF id \notin DOMAIN st.rowMap THEN Returns(FALSE, st)
  ELSE Returns(TRUE,
         [st EXCEPT !.rowMap = MapDelete(st.rowMap, id),
                    !.displayIndex = FilterSeq(st.displayIndex, Range(st.displayIndex) \ {id}),
                    !.filteredIndex = FilterSeq(st.filteredIndex, Range(st.filteredIndex) \ {id}),
                    !.searchIndex = MapDelete(st.searchIndex, id),
                    !.sortValues = [c \in DOMAIN st.sortValues |-> MapDelete(st.sortValues[c], id)]])

\* filterBySearch that returns at once on an empty query
filterBySearchEmptyNoop(st, query) ==
  IF query = <<>> THEN st
  ELSE [st EXCEPT !.filteredIndex =
          FilterSeq(st.displayIndex,
                    {id \in Range(st.displayIndex) :
                       id \in DOMAIN st.searchIndex
                       /\ Includes(st.searchIndex[id], ToLowerCase(query))})]

\* filterBySearch(query)
filterBySearch(st, query) ==
  IF query = <<>> THEN applyCurrentFilters(st)
  ELSE LET lowerQuery == ToLowerCase(query)
       IN [st EXCEPT !.filteredIndex =
             FilterSeq(st.displayIndex,
                       {id \in Range(st.displayIndex) :
                          id \in DOMAIN st.searchIndex /\ Includes(st.searchIndex[id], lowerQuery)})]

\* addFilter that keeps an earlier filter on the same column
addFilterAppendOnly(st, filter) ==
  applyCurrentFilters([st EXCEPT !.activeFilters = Append(st.activeFilters, filter)])

\* addFilter(filter)
addFilter(st, filter) ==
  LET kept == SelectSeq(st.activeFilters, LAMBDA f : f.column # filter.column)
  IN applyCurrentFilters([st EXCEPT !.activeFilters = Append(kept, filter)])

\* removeFilter(column)
removeFilter(st, column) ==
  applyCurrentFilters(
    [st EXCEPT !.activeFilters = SelectSeq(st.activeFilters, LAMBDA f : f.column # column)])

\* clearFilters()
clearFilters(st) ==
  [st EXCEPT !.activeFilters = <<>>, !.filteredIndex = st.displayIndex]

\* ------------------------------------------------------------------------
\* The calls made on the manager and their arguments
\* ------------------------------------------------------------------------
MaxOps == 3

Row(id, amount, name, date) ==
  [id |-> Str(id), amount |-> amount, name |-> Str(name), date |-> Str(date)]

\* the batches the manager is constructed from: three rows with distinct
\* identifiers (the third without a date), a batch in which two rows carry
\* the identifier "1", and the empty batch
InitialBatches ==
  { << Row(<<"1">>, Num(10), <<"a", "b">>, <<"1", "9", "7", "0", "-", "0", "1", "-", "0", "3">>),
       Row(<<"2">>, Num(5), <<"B">>, <<"1", "9", "7", "0", "-", "0", "1", "-", "0", "2">>),
       [id |-> Str(<<"3">>), amount |-> Num(20), name |-> Str(<<"a">>)] >>,
    << [id |-> Str(<<"1">>), amount |-> Num(10), name |-> Str(<<"a", "b">>)],
       [id |-> Str(<<"1">>), amount |-> Num(1), name |-> Str(<<"B">>)],
       [id |-> Str(<<"2">>), amount |-> Num(5)] >>,
    << >> }

SortInputs ==
  { <<"amount", "asc">>, <<"date", "asc">>, <<"name", "desc">>, <<"name", "none">> }


\* the cell editor passes the new value as a string
UpdateInputs ==
  { <<(<<"2">>), "amount", Str(<<"1", "0", "0">>)>>,
    <<(<<"2">>), "amount", Str(<<"x">>)>>,
    <<(<<"1">>), "date", Str(<<>>)>>,
    <<(<<"2">>), "date", Str(<<"x">>)>>,
    <<(<<"1">>), "id", Str(<<"9">>)>>,
    <<(<<"3">>), "name", Str(<<"b">>)>>,
    <<(<<"7">>), "amount", Str(<<"1">>)>> }

AddInputs ==
  { [id |-> Str(<<"4">>), amount |-> Num(7), name |-> Str(<<"A", "b">>)],
    [id |-> Str(<<"1">>), amount |-> Num(1)] }

\* a stored identifier, an identifier never stored, and the identifier an
\* edit of the id column shows
DeleteInputs == { <<"2">>, <<"7">>, <<"9">> }

SearchInputs == { <<>>, <<"a">>, <<"B">> }

\* the last filter carries an operator that is none of the seven
FilterInputs ==
  { [column |-> "amount", value |-> Num(6), operator |-> "gt"],
    [column |-> "amount", value |-> Num(15), operator |-> "lt"],
    [column |-> "name", value |-> Str(<<"A">>), operator |-> "contains"],
    [column |-> "amount", value |-> Num(10), operator |-> "like"] }

RemoveInputs == { "amount", "name" }

\* (startIndex, pageSize): inside filteredIndex, at its end, beyond it, negative
VisibleInputs == { <<1, 2>>, <<3, 2>>, <<-1, 2>> }

\* no hook is mounted on the manager
NoHook == [mounted |-> FALSE]

NoCall ==
  [op |-> "new", id |-> <<>>, column |-> "", direction |-> "", value |-> Undef,
   query |-> <<>>, ok |-> TRUE, operator |-> "", startIndex |-> 0, pageSize |-> 0,
   result |-> <<>>, columnIndex |-> 0, page |-> 0]

\* the fields after a call, and the record of the call, within a number of calls
StepWithin(bound, call, st) ==
  /\ nops < bound
  /\ nops' = nops + 1
  /\ rowMap' = st.rowMap
  /\ rowKeys' = keysAfter(rowKeys, st.rowMap)
  /\ held' = seenAfter(held, st.rowMap)
  /\ displayIndex' = st.displayIndex
  /\ filteredIndex' = st.filteredIndex
  /\ searchIndex' = st.searchIndex
  /\ sortValues' = st.sortValues
  /\ activeFilters' = st.activeFilters
  /\ currentSort' = st.currentSort
  /\ searchQuery' = IF call.op = "filterBySearch" THEN call.query ELSE searchQuery
  /\ last' = call
  /\ pre' = [st |-> Fields, last |-> last]
  /\ UNCHANGED sortEngine

\* a call made on the manager directly: no hook is mounted
Step(call, st) ==
  /\ StepWithin(MaxOps, call, st)
  /\ UNCHANGED <<ctl, preCtl>>

Init ==
  /\ \E rows \in InitialBatches :
       LET st == construct(rows)
       IN /\ rowMap = st.rowMap
          /\ rowKeys = keysOf(st.displayIndex)
          /\ displayIndex = st.displayIndex
          /\ filteredIndex = st.filteredIndex
          /\ searchIndex = st.searchIndex
          /\ sortValues = st.sortValues
          /\ activeFilters = st.activeFilters
          /\ currentSort = st.currentSort
          /\ pre = [st |-> st, last |-> NoCall]
  /\ sortEngine \in SortEngines
  /\ searchQuery = <<>>
  /\ last = NoCall
  /\ nops = 0
  /\ held = <<>>
  /\ ctl = NoHook
  /\ preCtl = NoHook

SortBy ==
  \E in \in SortInputs :
    Step([NoCall EXCEPT !.op = "sortBy", !.column = in[1], !.direction = in[2]],
         sortBy(Fields, in[1], in[2]))

UpdateCell ==
  \E in \in UpdateInputs :
    LET r == updateCell(Fields, in[1], in[2], in[3])
    IN Step([NoCall EXCEPT !.op = "updateCell", !.id = in[1], !.column = in[2],
                           !.value = in[3], !.ok = r.ok], r.st)

AddRow ==
  \E row \in AddInputs :
    LET r == addRow(Fields, row)
    IN Step([NoCall EXCEPT !.op = "addRow", !.id = JsString(Get(row, idField)),
                           !.ok = r.ok], r.st)

DeleteRow ==
  \E id \in DeleteInputs :
    LET r == deleteRow(Fields, id)
    IN Step([NoCall EXCEPT !.op = "deleteRow", !.id = id, !.ok = r.ok], r.st)

FilterBySearch ==
  \E query \in SearchInputs :
    Step([NoCall EXCEPT !.op = "filterBySearch", !.query = query],
         filterBySearch(Fields, query))

AddFilter ==
  \E filter \in FilterInputs :
    Step([NoCall EXCEPT !.op = "addFilter", !.column = filter.column,
                        !.value = filter.value, !.operator = filter.operator],
         addFilter(Fields, filter))

RemoveFilter ==
  \E column \in RemoveInputs :
    Step([NoCall EXCEPT !.op = "removeFilter", !.column = column],
         removeFilter(Fields, column))

ClearFilters ==
  Step([NoCall EXCEPT !.op = "clearFilters"], clearFilters(Fields))

GetVisibleRows ==
  \E in \in VisibleInputs :
    Step([NoCall EXCEPT !.op = "getVisibleRows", !.startIndex = in[1], !.pageSize = in[2],
                        !.result = getVisibleRows(Fields, in[1], in[2])],
         Fields)

Next ==
  \/ SortBy
  \/ UpdateCell
  \/ AddRow
  \/ DeleteRow
  \/ FilterBySearch
  \/ AddFilter
  \/ RemoveFilter
  \/ ClearFilters
  \/ GetVisibleRows

Spec == Init /\ [][Next]_vars

\* ------------------------------------------------------------------------
\* A store of three rows with amounts, sorted, filtered and edited
\* ------------------------------------------------------------------------
MaxWorkedOps == 4

WorkedRows ==
  << [id |-> Str(<<"1">>), amount |-> Num(10)],
     [id |-> Str(<<"2">>), amount |-> Num(5)],
     [id |-> Str(<<"3">>), amount |-> Num(20)] >>

WorkedSortInputs == { <<"amount", "asc">>, <<"amount", "desc">> }

WorkedFilterInputs ==
  { [column |-> "amount", value |-> Num(6), operator |-> "gt"],
    [column |-> "amount", value |-> Num(15), operator |-> "lt"] }

WorkedUpdateInputs ==
  { <<(<<"2">>), "amount", Str(<<"1", "0", "0">>)>>,
    <<(<<"3">>), "amount", Str(<<"1">>)>> }

WorkedStep(call, st) ==
  /\ StepWithin(MaxWorkedOps, call, st)
  /\ UNCHANGED <<ctl, preCtl>>

WorkedInit ==
  /\ LET st == construct(WorkedRows)
     IN /\ rowMap = st.rowMap
        /\ rowKeys = keysOf(st.displayIndex)
        /\ displayIndex = st.displayIndex
        /\ filteredIndex = st.filteredIndex
        /\ searchIndex = st.searchIndex
        /\ sortValues = st.sortValues
        /\ activeFilters = st.activeFilters
        /\ currentSort = st.currentSort
        /\ pre = [st |-> st, last |-> NoCall]
  /\ sortEngine \in SortEngines
  /\ searchQuery = <<>>
  /\ last = NoCall
  /\ nops = 0
  /\ held = <<>>
  /\ ctl = NoHook
  /\ preCtl = NoHook

WorkedSortBy ==
  \E in \in WorkedSortInputs :
    WorkedStep([NoCall EXCEPT !.op = "sortBy", !.column = in[1], !.direction = in[2]],
               sortBy(Fields, in[1], in[2]))

WorkedAddFilter ==
  \E filter \in WorkedFilterInputs :
    WorkedStep([NoCall EXCEPT !.op = "addFilter", !.column = filter.column,
                              !.value = filter.value, !.operator = filter.operator],
               addFilter(Fields, filter))

WorkedUpdateCell ==
  \E in \in WorkedUpdateInputs :
    LET r == updateCell(Fields, in[1], in[2], in[3])
    IN WorkedStep([NoCall EXCEPT !.op = "updateCell", !.id = in[1], !.column = in[2],
                                 !.value = in[3], !.ok = r.ok], r.st)

WorkedNext ==
  \/ WorkedSortBy
  \/ WorkedAddFilter
  \/ WorkedUpdateCell

WorkedSpec == WorkedInit /\ [][WorkedNext]_vars

\* ------------------------------------------------------------------------
\* useGridManager: the hook over a manager.  A handler is an operator from
\* the hook's state and the manager's fields (a record h) to both after the
\* handler has run and the effects of the following render have run.
\* ------------------------------------------------------------------------
MaxHookOps == 3

\* the props of the hook
columns == <<"id", "amount", "name", "date">>

HookRows ==
  << Row(<<"1">>, Num(10), <<"a", "b">>, <<"1", "9", "7", "0", "-", "0", "1", "-", "0", "3">>),
     Row(<<"2">>, Num(5), <<"B">>, <<"1", "9", "7", "0", "-", "0", "1", "-", "0", "2">>),
     [id |-> Str(<<"3">>), amount |-> Num(20), name |-> Str(<<"a">>)] >>

HookProps ==
  { [initialData |-> HookRows, initialPageSize |-> 1,
     defaultSortColumn |-> UndefinedColumn, defaultSortDirection |-> "none"],
    [initialData |-> HookRows, initialPageSize |-> 2,
     defaultSortColumn |-> "amount", defaultSortDirection |-> "dsc"] }

\* the direction the manager is given for a direction of the hook
dmDirection(direction) == IF direction = "dsc" THEN "desc" ELSE direction

\* setGridState(result)
setGridState(h, dm) ==
  [h EXCEPT !.dm = dm, !.ctl.gridState = getCurrentState(dm)]

\* the effect on [dataManager, searchQuery]
searchEffect(h) ==
  LET h1 == setGridState(h, filterBySearch(h.dm, h.ctl.searchQuery))
  IN [h1 EXCEPT !.ctl.currentPage = 0]

\* the effect on [dataManager, defaultSortColumn, defaultSortDirection]
initialSortEffect(h, props) ==
  IF ColumnTruthy(props.defaultSortColumn) /\ props.defaultSortDirection # "none"
  THEN setGridState(h, sortBy(h.dm, props.defaultSortColumn,
                              IF props.defaultSortDirection = "dsc" THEN "desc" ELSE "asc"))
  ELSE h

\* the first render of the hook and the effects that follow it
mount(props) ==
  LET dm == construct(props.initialData)
      h == [dm |-> dm,
            ctl |-> [mounted |-> TRUE,
                     searchQuery |-> <<>>,
                     selectedIds |-> <<>>,
                     currentPage |-> 0,
                     pageSize |-> props.initialPageSize,
                     sortField |-> IF ColumnTruthy(props.defaultSortColumn)
                                   THEN props.defaultSortColumn ELSE NullColumn,
                     sortDirection |-> props.defaultSortDirection,
                     isLoading |-> FALSE,
                     gridState |-> getCurrentState(dm)]]
  IN searchEffect(initialSortEffect(h, props))

\* columns[columnIndex - 1] of a 0-based array: undefined outside it
columnAt(columnIndex) ==
  IF columnIndex - 1 >= 0 /\ columnIndex - 1 < Len(columns)
  THEN columns[columnIndex] ELSE UndefinedColumn

\* the direction handleSort steps to
nextDirection(sortField, sortDirection, column) ==
  IF sortField = column
  THEN (IF sortDirection = "none" THEN "asc"
        ELSE IF sortDirection = "asc" THEN "dsc" ELSE "none")
  ELSE "asc"

\* handleSort that toggles between the two sorted directions only
handleSortTwoWay(h, columnIndex) ==
  LET column == columnAt(columnIndex)
      newDirection == IF h.ctl.sortField = column /\ h.ctl.sortDirection = "asc"
                      THEN "dsc" ELSE "asc"
      h1 == [h EXCEPT !.ctl.sortField = column, !.ctl.sortDirection = newDirection]
      h2 == setGridState(h1, sortBy(h1.dm, column, dmDirection(newDirection)))
  IN [h2 EXCEPT !.ctl.currentPage = 0]

\* handleSort(columnIndex)
handleSort(h, columnIndex) ==
  LET column == columnAt(columnIndex)
      newDirection == nextDirection(h.ctl.sortField, h.ctl.sortDirection, column)
      h1 == [h EXCEPT !.ctl.sortField = column, !.ctl.sortDirection = newDirection]
      h2 == setGridState(h1, sortBy(h1.dm, column, dmDirection(newDirection)))
  IN [h2 EXCEPT !.ctl.currentPage = 0]

\* setSearchQuery(query): a state that does not change runs no effect
setSearchQuery(h, query) ==
  IF query = h.ctl.searchQuery THEN h
  ELSE searchEffect([h EXCEPT !.ctl.searchQuery = query])

ValidOperators == {"eq", "neq", "gt", "lt", "contains", "starts", "ends"}

\* addFilter(column, value, operator) of the hook
hookAddFilter(h, column, value, operator) ==
  LET validOperator == IF operator \in ValidOperators THEN operator ELSE "eq"
      h1 == setGridState(h, addFilter(h.dm, [column |-> column, value |-> value,
                                            operator |-> validOperator]))
  IN [h1 EXCEPT !.ctl.currentPage = 0]

\* removeFilter of the hook that then selects every row shown
hookRemoveFilterSelectsShown(h, column) ==
  LET h1 == setGridState(h, removeFilter(h.dm, column))
  IN [h1 EXCEPT !.ctl.selectedIds =
        [i \in 1..Len(h1.ctl.gridState.filteredRows) |->
           JsString(Get(h1.ctl.gridState.filteredRows[i], idField))]]

\* removeFilter(column) of the hook
hookRemoveFilter(h, column) ==
  setGridState(h, removeFilter(h.dm, column))

\* clearFilters() of the hook; the search effect runs when the query changes
hookClearFilters(h) ==
  LET h1 == setGridState(h, clearFilters(h.dm))
      h2 == [h1 EXCEPT !.ctl.searchQuery = <<>>, !.ctl.currentPage = 0]
  IN IF h.ctl.searchQuery = <<>> THEN h2 ELSE searchEffect(h2)

\* Math.ceil(count / size) - 1 for a positive size
maxPage(count, size) == ((count + size - 1) \div size) - 1

\* nextPage()
nextPage(h) ==
  LET limit == maxPage(h.ctl.gridState.filteredCount, h.ctl.pageSize)
  IN [h EXCEPT !.ctl.currentPage = IF @ + 1 < limit THEN @ + 1 ELSE limit]

\* prevPage()
prevPage(h) ==
  [h EXCEPT !.ctl.currentPage = IF @ - 1 > 0 THEN @ - 1 ELSE 0]

\* toggleSelection(id)
toggleSelection(h, id) ==
  [h EXCEPT !.ctl.selectedIds =
     IF id \in Range(@) THEN SelectSeq(@, LAMBDA rowId : rowId # id) ELSE Append(@, id)]

\* toggleSelectAll that selects every row of the store
toggleSelectAllWholeStore(h) ==
  LET rows == h.ctl.gridState.filteredRows
  IN [h EXCEPT !.ctl.selectedIds =
        IF Len(@) = Len(rows) THEN <<>> ELSE h.dm.displayIndex]

\* toggleSelectAll()
toggleSelectAll(h) ==
  LET rows == h.ctl.gridState.filteredRows
  IN [h EXCEPT !.ctl.selectedIds =
        IF Len(@) = Len(rows) THEN <<>>
        ELSE [i \in 1..Len(rows) |-> JsString(Get(rows[i], idField))]]

\* clearSelection()
clearSelection(h) == [h EXCEPT !.ctl.selectedIds = <<>>]

\* isAllSelected
isAllSelected(h) ==
  Len(h.ctl.selectedIds) > 0 /\ Len(h.ctl.selectedIds) = Len(h.ctl.gridState.filteredRows)

\* goToPage(page)
goToPage(h, page) ==
  LET limit == maxPage(h.ctl.gridState.filteredCount, h.ctl.pageSize)
      lower == IF page < limit THEN page ELSE limit
      validPage == IF 0 > lower THEN 0 ELSE lower
  IN [h EXCEPT !.ctl.currentPage = validPage]

\* handleSetPageSize(size), returned by the hook as setPageSize
handleSetPageSize(h, size) ==
  LET limit == maxPage(h.ctl.gridState.filteredCount, size)
      h1 == [h EXCEPT !.ctl.pageSize = size]
  IN IF h.ctl.currentPage > limit
     THEN [h1 EXCEPT !.ctl.currentPage = IF 0 > limit THEN 0 ELSE limit]
     ELSE h1

\* what a handler over a manager's method gives: the hook after it and
\* whether the method returned a state
HookReturns(ok, h) == [ok |-> ok, h |-> h]

\* updateCell(rowId, columnName, value) of the hook
hookUpdateCell(h, rowId, columnName, value) ==
  IF columnName = "" THEN HookReturns(FALSE, h)
  ELSE LET result == updateCell(h.dm, rowId, columnName, value)
       IN IF result.ok THEN HookReturns(TRUE, setGridState(h, result.st))
          ELSE HookReturns(FALSE, h)

\* addRow(rowData) of the hook
hookAddRow(h, rowData) ==
  LET result == addRow(h.dm, rowData)
  IN IF result.ok THEN HookReturns(TRUE, setGridState(h, result.st))
     ELSE HookReturns(FALSE, h)

\* deleteRow of the hook that clears the selection whatever the manager returns
hookDeleteRowClearsSelection(h, rowId) ==
  LET result == deleteRow(h.dm, rowId)
      h1 == [h EXCEPT !.ctl.selectedIds = <<>>]
  IN IF result.ok THEN HookReturns(TRUE, setGridState(h1, result.st))
     ELSE HookReturns(FALSE, h1)

\* deleteRow(rowId) of the hook
hookDeleteRow(h, rowId) ==
  LET result == deleteRow(h.dm, rowId)
      h1 == IF rowId \in Range(h.ctl.selectedIds)
            THEN [h EXCEPT !.ctl.selectedIds = SelectSeq(@, LAMBDA id : id # rowId)]
            ELSE h
  IN IF result.ok THEN HookReturns(TRUE, setGridState(h1, result.st))
     ELSE HookReturns(FALSE, h)

\* ------------------------------------------------------------------------
\* The calls made on the hook and their arguments
\* ------------------------------------------------------------------------
HookSortInputs == {0, 2, 3}

\* the empty text, two texts that rows hold, a text no row holds
HookSearchInputs == { <<>>, <<"a">>, <<"B">>, <<"z">> }

HookFilterInputs ==
  { <<"amount", Num(6), "gt">>, <<"amount", Num(15), "lt">>,
    <<"name", Str(<<"A">>), "contains">>, <<"amount", Num(10), "like">> }

HookRemoveInputs == { "amount", "name" }

HookToggleInputs == { <<"1">> }

\* a page below the first, a page inside, a page beyond the last
HookPageInputs == { -1, 1, 5 }

HookPageSizeInputs == { 1, 3 }

\* an edit of a stored row and an edit of an identifier that is not stored
HookUpdateInputs ==
  { <<(<<"2">>), "amount", Str(<<"1", "0", "0">>)>>,
    <<(<<"7">>), "amount", Str(<<"1">>)>> }

\* a row with a new identifier and a row with a stored identifier
HookAddInputs ==
  { [id |-> Str(<<"4">>), amount |-> Num(7), name |-> Str(<<"A", "b">>)],
    [id |-> Str(<<"1">>), amount |-> Num(1)] }

HookDeleteInputs == { <<"2">>, <<"7">> }

\* the hook and its manager as they are
Hook == [ctl |-> ctl, dm |-> Fields]

\* the hook and the manager after a handler, and the record of the call
HookStep(call, h) ==
  /\ nops < MaxHookOps
  /\ nops' = nops + 1
  /\ rowMap' = h.dm.rowMap
  /\ rowKeys' = keysAfter(rowKeys, h.dm.rowMap)
  /\ held' = seenAfter(held, h.dm.rowMap)
  /\ displayIndex' = h.dm.displayIndex
  /\ filteredIndex' = h.dm.filteredIndex
  /\ searchIndex' = h.dm.searchIndex
  /\ sortValues' = h.dm.sortValues
  /\ activeFilters' = h.dm.activeFilters
  /\ currentSort' = h.dm.currentSort
  /\ ctl' = h.ctl
  /\ searchQuery' = h.ctl.searchQuery
  /\ last' = call
  /\ pre' = [st |-> Fields, last |-> last]
  /\ preCtl' = ctl
  /\ UNCHANGED sortEngine

HookInit ==
  /\ sortEngine \in SortEngines
  /\ \E props \in HookProps :
       LET h == mount(props)
       IN /\ rowMap = h.dm.rowMap
          /\ rowKeys = keysOf(construct(props.initialData).displayIndex)
          /\ displayIndex = h.dm.displayIndex
          /\ filteredIndex = h.dm.filteredIndex
          /\ searchIndex = h.dm.searchIndex
          /\ sortValues = h.dm.sortValues
          /\ activeFilters = h.dm.activeFilters
          /\ currentSort = h.dm.currentSort
          /\ ctl = h.ctl
          /\ preCtl = h.ctl
          /\ pre = [st |-> h.dm, last |-> NoCall]
  /\ searchQuery = <<>>
  /\ last = NoCall
  /\ nops = 0
  /\ held = <<>>

HandleSort ==
  \E columnIndex \in HookSortInputs :
    HookStep([NoCall EXCEPT !.op = "handleSort", !.columnIndex = columnIndex],
             handleSort(Hook, columnIndex))

SetSearchQuery ==
  \E query \in HookSearchInputs :
    HookStep([NoCall EXCEPT !.op = "setSearchQuery", !.query = query],
             setSearchQuery(Hook, query))

HookAddFilter ==
  \E in \in HookFilterInputs :
    HookStep([NoCall EXCEPT !.op = "hook.addFilter", !.column = in[1], !.value = in[2],
                            !.operator = in[3]],
             hookAddFilter(Hook, in[1], in[2], in[3]))

HookRemoveFilter ==
  \E column \in HookRemoveInputs :
    HookStep([NoCall EXCEPT !.op = "hook.removeFilter", !.column = column],
             hookRemoveFilter(Hook, column))

HookClearFilters ==
  HookStep([NoCall EXCEPT !.op = "hook.clearFilters"], hookClearFilters(Hook))

NextPage == HookStep([NoCall EXCEPT !.op = "nextPage"], nextPage(Hook))

PrevPage == HookStep([NoCall EXCEPT !.op = "prevPage"], prevPage(Hook))

ToggleSelection ==
  \E id \in HookToggleInputs :
    HookStep([NoCall EXCEPT !.op = "toggleSelection", !.id = id], toggleSelection(Hook, id))

ToggleSelectAll == HookStep([NoCall EXCEPT !.op = "toggleSelectAll"], toggleSelectAll(Hook))

ClearSelection == HookStep([NoCall EXCEPT !.op = "clearSelection"], clearSelection(Hook))

GoToPage ==
  \E page \in HookPageInputs :
    HookStep([NoCall EXCEPT !.op = "goToPage", !.page = page], goToPage(Hook, page))

SetPageSize ==
  \E size \in HookPageSizeInputs :
    HookStep([NoCall EXCEPT !.op = "setPageSize", !.pageSize = size],
             handleSetPageSize(Hook, size))

HookUpdateCell ==
  \E in \in HookUpdateInputs :
    LET r == hookUpdateCell(Hook, in[1], in[2], in[3])
    IN HookStep([NoCall EXCEPT !.op = "hook.updateCell", !.id = in[1], !.column = in[2],
                               !.value = in[3], !.ok = r.ok], r.h)

HookAddRow ==
  \E rowData \in HookAddInputs :
    LET r == hookAddRow(Hook, rowData)
    IN HookStep([NoCall EXCEPT !.op = "hook.addRow", !.id = JsString(Get(rowData, idField)),
                               !.ok = r.ok], r.h)

HookDeleteRow ==
  \E rowId \in HookDeleteInputs :
    LET r == hookDeleteRow(Hook, rowId)
    IN HookStep([NoCall EXCEPT !.op = "hook.deleteRow", !.id = rowId, !.ok = r.ok], r.h)

HookNext ==
  \/ HandleSort
  \/ SetSearchQuery
  \/ HookAddFilter
  \/ HookRemoveFilter
  \/ HookClearFilters
  \/ NextPage
  \/ PrevPage
  \/ ToggleSelection
  \/ ToggleSelectAll
  \/ ClearSelection
  \/ GoToPage
  \/ SetPageSize
  \/ HookUpdateCell
  \/ HookAddRow
  \/ HookDeleteRow

HookSpec == HookInit /\ [][HookNext]_vars

\* ------------------------------------------------------------------------
\* A caller that holds on to the rows a call returned: getCurrentState and
\* getVisibleRows return the objects of rowMap themselves.
\* ------------------------------------------------------------------------
MaxAliasOps == 4

\* the rows returned for a list of identifiers, as the caller holds them:
\* the object under each key, what it shows, and what a copy taken at the
\* return would show
heldFrom(st, ids) ==
  LET found == SelectSeq(ids, LAMBDA id : id \in DOMAIN st.rowMap)
  IN [i \in 1..Len(found) |->
        [key |-> found[i], live |-> TRUE, row |-> st.rowMap[found[i]],
         copy |-> st.rowMap[found[i]]]]

\* rows[i][column] = value, written by the caller into a row it holds
writeHeld(rows, i, column, value) ==
  [rows EXCEPT ![i].row = MapSet(@, column, value), ![i].copy = MapSet(@, column, value)]

\* rowMap after the caller's write: the row written is the stored object
\* while its key is stored
storeAfterWrite(st, rows, i, column, value) ==
  IF rows[i].live
  THEN [st EXCEPT !.rowMap = MapSet(@, rows[i].key, MapSet(@[rows[i].key], column, value))]
  ELSE st

AliasUpdateInputs ==
  { <<(<<"1">>), "name", Str(<<"b">>)>>, <<(<<"2">>), "amount", Str(<<"1", "0", "0">>)>> }

AliasDeleteInputs == { <<"1">> }

AliasSortInputs == { <<"amount", "asc">> }

AliasVisibleInputs == { <<0, 2>> }

AliasWriteInputs == { <<1, "name", Str(<<"w">>)>> }

\* a step of the caller that leaves the manager's fields to st and holds rows
AliasHold(call, st, rows) ==
  /\ nops < MaxAliasOps
  /\ nops' = nops + 1
  /\ rowMap' = st.rowMap
  /\ held' = seenAfter(rows, st.rowMap)
  /\ last' = call
  /\ pre' = [st |-> Fields, last |-> last]
  /\ UNCHANGED <<rowKeys, displayIndex, filteredIndex, searchIndex, sortValues,
                 activeFilters, currentSort, sortEngine, searchQuery, ctl, preCtl>>

AliasStep(call, st) ==
  /\ StepWithin(MaxAliasOps, call, st)
  /\ UNCHANGED <<ctl, preCtl>>

AliasInit ==
  /\ LET st == construct(HookRows)
     IN /\ rowMap = st.rowMap
        /\ rowKeys = keysOf(st.displayIndex)
        /\ displayIndex = st.displayIndex
        /\ filteredIndex = st.filteredIndex
        /\ searchIndex = st.searchIndex
        /\ sortValues = st.sortValues
        /\ activeFilters = st.activeFilters
        /\ currentSort = st.currentSort
        /\ pre = [st |-> st, last |-> NoCall]
  /\ sortEngine \in SortEngines
  /\ searchQuery = <<>>
  /\ last = NoCall
  /\ nops = 0
  /\ ctl = NoHook
  /\ preCtl = NoHook
  /\ held = <<>>

\* the caller holds the filteredRows of getCurrentState()
AliasGetCurrentState ==
  AliasHold([NoCall EXCEPT !.op = "getCurrentState"], Fields, heldFrom(Fields, filteredIndex))

\* the caller holds the rows of getVisibleRows(startIndex, pageSize)
AliasGetVisibleRows ==
  \E in \in AliasVisibleInputs :
    AliasHold([NoCall EXCEPT !.op = "getVisibleRows", !.startIndex = in[1], !.pageSize = in[2],
                             !.result = getVisibleRows(Fields, in[1], in[2])],
              Fields, heldFrom(Fields, Slice(filteredIndex, in[1], in[1] + in[2])))

\* the caller writes into a row it holds
AliasWrite ==
  \E in \in AliasWriteInputs :
    /\ in[1] <= Len(held)
    /\ AliasHold([NoCall EXCEPT !.op = "write", !.id = held[in[1]].key, !.column = in[2],
                             !.value = in[3]],
                 storeAfterWrite(Fields, held, in[1], in[2], in[3]),
                 writeHeld(held, in[1], in[2], in[3]))

AliasUpdateCell ==
  \E in \in AliasUpdateInputs :
    LET r == updateCell(Fields, in[1], in[2], in[3])
    IN AliasStep([NoCall EXCEPT !.op = "updateCell", !.id = in[1], !.column = in[2],
                                !.value = in[3], !.ok = r.ok], r.st)

AliasDeleteRow ==
  \E id \in AliasDeleteInputs :
    LET r == deleteRow(Fields, id)
    IN AliasStep([NoCall EXCEPT !.op = "deleteRow", !.id = id, !.ok = r.ok], r.st)

AliasSortBy ==
  \E in \in AliasSortInputs :
    AliasStep([NoCall EXCEPT !.op = "sortBy", !.column = in[1], !.direction = in[2]],
              sortBy(Fields, in[1], in[2]))

AliasNext ==
  \/ AliasGetCurrentState
  \/ AliasGetVisibleRows
  \/ AliasWrite
  \/ AliasUpdateCell
  \/ AliasDeleteRow
  \/ AliasSortBy

AliasSpec == AliasInit /\ [][AliasNext]_vars

\* ------------------------------------------------------------------------
\* Properties
\* ------------------------------------------------------------------------
Snapshot == getCurrentState(Fields)

NoDuplicates(seq) == \A i, j \in 1..Len(seq) : seq[i] = seq[j] => i = j

\* the record stored under id passes every active filter
PassesAllFilters(id) ==
  \A i \in 1..Len(activeFilters) : filterMatches(rowMap[id], activeFilters[i])

\* the identifiers of displayIndex one filter alone selects
SelectedBy(filter) == {id \in Range(displayIndex) : filterMatches(rowMap[id], filter)}

\* the cached search text of id contains the lowercased query
SearchMatches(id, query) ==
  id \in DOMAIN searchIndex /\ Includes(searchIndex[id], ToLowerCase(query))

\* the subsequence of displayIndex the active filters alone define
FilteredByFilters == FilterSeq(displayIndex, {id \in Range(displayIndex) : PassesAllFilters(id)})

Recomputing == {"sortBy", "addFilter", "removeFilter", "clearFilters", "updateCell", "addRow"}

\* C1: the identifiers of filteredIndex are among those of displayIndex, and
\* the identifiers of displayIndex are exactly the keys of rowMap.
IndexConsistency ==
  /\ Range(filteredIndex) \subseteq Range(displayIndex)
  /\ Range(displayIndex) = DOMAIN rowMap

\* C1 witness: a row was added and another deleted while a filter hides rows.
IndexConsistencyWitness ==
  /\ last.op = "deleteRow" /\ last.ok
  /\ pre.last.op = "addRow" /\ pre.last.ok
  /\ filteredIndex # <<>>
  /\ Len(filteredIndex) < Len(displayIndex)

\* C2: displayIndex holds no identifier twice, its length is totalRows, and
\* filteredCount does not exceed totalRows, whatever batch the manager was
\* constructed from.
IdentifierUniqueness ==
  /\ NoDuplicates(displayIndex)
  /\ Len(displayIndex) = Snapshot.totalRows
  /\ Snapshot.filteredCount <= Snapshot.totalRows

\* C3: right after filterBySearch(q) with q non-empty, filteredIndex is the
\* subsequence of displayIndex of the identifiers whose search text contains
\* lowercase(q) and whose records pass every active filter.
SearchCompoundsWithFilters ==
  (last.op = "filterBySearch" /\ last.query # <<>>) =>
    filteredIndex =
      FilterSeq(displayIndex,
                {id \in Range(displayIndex) :
                   SearchMatches(id, last.query) /\ PassesAllFilters(id)})

\* C4: with a non-empty latest search query and no active filter, after a
\* sortBy, addFilter, removeFilter, clearFilters, updateCell or addRow every
\* identifier of filteredIndex still matches the query.
SearchStaysInEffect ==
  (searchQuery # <<>> /\ activeFilters = <<>> /\ last.op \in Recomputing /\ last.ok) =>
    \A id \in Range(filteredIndex) : SearchMatches(id, searchQuery)

\* C5: with no text search in effect, filteredIndex is the subsequence of
\* displayIndex, in the same order, of the identifiers whose current record
\* passes every active filter; with two filters on different columns its
\* identifiers are the intersection of what each filter alone selects.
FilterConjunction ==
  searchQuery = <<>> =>
    /\ filteredIndex = FilteredByFilters
    /\ (Len(activeFilters) = 2 =>
          Range(filteredIndex) = SelectedBy(activeFilters[1]) \cap SelectedBy(activeFilters[2]))

\* C5 witness: after a sortBy, two filters on different columns are active,
\* each selects something the other does not, and rows remain.
FilterConjunctionWitness ==
  /\ searchQuery = <<>>
  /\ last.op = "sortBy"
  /\ Len(activeFilters) = 2
  /\ activeFilters[1].column # activeFilters[2].column
  /\ SelectedBy(activeFilters[1]) \ SelectedBy(activeFilters[2]) # {}
  /\ SelectedBy(activeFilters[2]) \ SelectedBy(activeFilters[1]) # {}
  /\ filteredIndex # <<>>

\* C6: filterBySearch(x) with x non-empty followed by filterBySearch("")
\* leaves filteredIndex equal to what the active filters alone define, and
\* displayIndex as it was.
SearchScope ==
  (/\ last.op = "filterBySearch" /\ last.query = <<>>
   /\ pre.last.op = "filterBySearch" /\ pre.last.query # <<>>) =>
    /\ filteredIndex = FilteredByFilters
    /\ displayIndex = pre.st.displayIndex

\* C6 witness: the search had changed the view of a filtered store, and the
\* empty query brought back the rows the filter alone selects.
SearchScopeWitness ==
  /\ last.op = "filterBySearch" /\ last.query = <<>>
  /\ pre.last.op = "filterBySearch" /\ pre.last.query # <<>>
  /\ activeFilters # <<>>
  /\ pre.st.filteredIndex # filteredIndex
  /\ filteredIndex # <<>>
  /\ Len(filteredIndex) < Len(displayIndex)

\* the comparison key of id for a column: the cached sort value, a missing
\* entry read as 0, when the column has cached values, the raw value otherwise
SortKey(column, id) ==
  IF column \in DOMAIN sortValues
  THEN (IF id \in DOMAIN sortValues[column] THEN sortValues[column][id] ELSE Num(0))
  ELSE Get(rowMap[id], column)

\* key ka is not after key kb: numerically for two numbers (a NaN key is let
\* through), by the text otherwise
KeyNotAfter(ka, kb) ==
  IF IsNumber(ka) /\ IsNumber(kb)
  THEN ka.t = "nan" \/ kb.t = "nan" \/ ka.n <= kb.n
  ELSE LocaleCompare(JsString(IF Truthy(ka) THEN ka ELSE Str(<<>>)),
                     JsString(IF Truthy(kb) THEN kb ELSE Str(<<>>))) <= 0

\* C7: whenever the sort direction is ascending (descending) on column c,
\* every adjacent pair of displayIndex is in non-decreasing (non-increasing)
\* order of c's comparison key.
SortedOrder ==
  currentSort.direction \in {"asc", "desc"} =>
    \A i \in 1..(Len(displayIndex) - 1) :
      LET ka == SortKey(currentSort.column, displayIndex[i])
          kb == SortKey(currentSort.column, displayIndex[i + 1])
      IN IF currentSort.direction = "asc" THEN KeyNotAfter(ka, kb) ELSE KeyNotAfter(kb, ka)

\* C8: right after sortBy(c, none), displayIndex is in ascending
\* lexicographic order of the identifiers (the keys of rowMap) it holds.
SortReset ==
  (last.op = "sortBy" /\ last.direction = "none") =>
    \A i \in 1..(Len(displayIndex) - 1) :
      LocaleCompare(displayIndex[i], displayIndex[i + 1]) <= 0

\* C9: sortBy(c, d) called twice in a row leaves displayIndex and
\* filteredIndex as the first call left them.
SortIdempotence ==
  (/\ last.op = "sortBy" /\ pre.last.op = "sortBy"
   /\ last.column = pre.last.column /\ last.direction = pre.last.direction) =>
    /\ displayIndex = pre.st.displayIndex
    /\ filteredIndex = pre.st.filteredIndex

\* C9 witness: the same sort was called twice on a store whose rows it
\* reorders, and rows share a comparison key.
SortIdempotenceWitness ==
  /\ last.op = "sortBy" /\ pre.last.op = "sortBy"
  /\ last.column = pre.last.column /\ last.direction = pre.last.direction
  /\ last.direction # "none"
  /\ \E i, j \in 1..Len(displayIndex) :
       /\ i < j /\ displayIndex[i] # displayIndex[j]
       /\ SortKey(last.column, displayIndex[i]) = SortKey(last.column, displayIndex[j])
  /\ \E i, j \in 1..Len(displayIndex) :
       i < j /\ LocaleCompare(displayIndex[j], displayIndex[i]) < 0

\* the comparison key of a value written to a column: the timestamp or the
\* number it parses to, 0 for a lacking value, the value itself otherwise
KeyOfValue(column, v) ==
  IF column \in Range(DATE_COLUMNS) THEN (IF Truthy(v) THEN DateGetTime(v) ELSE Num(0))
  ELSE IF column \in Range(NUMERIC_COLUMNS)
  THEN (IF v.t \in {"null", "undefined"} THEN Num(0) ELSE ToNumber(v))
  ELSE v

\* C10: after updateCell(id, col, v) on a present id the record under id has
\* v for col, and if col is the active sort column (ascending or descending)
\* the position of id in displayIndex is the rank of v's comparison key among
\* the keys of the other records (checked when v has a key).
RoundTripEdit ==
  (last.op = "updateCell" /\ last.ok) =>
    /\ Get(rowMap[last.id], last.column) = last.value
    /\ (/\ currentSort.column = last.column
        /\ currentSort.direction \in {"asc", "desc"}
        /\ KeyOfValue(last.column, last.value).t # "nan") =>
         \A i, j \in 1..Len(displayIndex) :
           (displayIndex[i] = last.id /\ displayIndex[j] # last.id /\ j < i) =>
             LET k == KeyOfValue(last.column, last.value)
                 kj == SortKey(last.column, displayIndex[j])
             IN /\ currentSort.direction = "asc" => KeyNotAfter(kj, k)
                /\ currentSort.direction = "desc" => KeyNotAfter(k, kj)

\* C11: addRow of a record whose stringified identifier is already a key of
\* rowMap returns no state and leaves rowMap, displayIndex, filteredIndex,
\* searchIndex, sortValues, activeFilters and currentSort as they were.
DuplicateInsertRejected ==
  (last.op = "addRow" /\ last.id \in DOMAIN pre.st.rowMap) =>
    /\ ~last.ok
    /\ Fields = pre.st

\* C11 witness: a duplicate was refused while a text search narrows the view,
\* so that a recomputation of filteredIndex would have shown.
DuplicateInsertRejectedWitness ==
  /\ last.op = "addRow" /\ last.id \in DOMAIN pre.st.rowMap /\ ~last.ok
  /\ pre.last.op = "filterBySearch"
  /\ filteredIndex # <<>>
  /\ filteredIndex # FilteredByFilters

\* C12: updateCell and deleteRow on an identifier that is not a key of rowMap
\* return no state and leave every field of the manager as it was.
UnknownIdentifierRejected ==
  (last.op \in {"updateCell", "deleteRow"} /\ last.id \notin DOMAIN pre.st.rowMap) =>
    /\ ~last.ok
    /\ Fields = pre.st

\* C12 witness: both calls were refused in a row, on a store that has rows
\* and hides some of them.
UnknownIdentifierRejectedWitness ==
  /\ last.op = "deleteRow" /\ last.id \notin DOMAIN pre.st.rowMap /\ ~last.ok
  /\ pre.last.op = "updateCell" /\ ~pre.last.ok
  /\ filteredIndex # <<>>
  /\ Len(filteredIndex) < Len(displayIndex)

\* a sequence without the occurrences of one identifier
Without(seq, id) == FilterSeq(seq, Range(seq) \ {id})

\* C13: deleteRow(id) on a stored id removes id from rowMap, displayIndex,
\* filteredIndex, searchIndex and every map of sortValues, lowers totalRows by
\* one, and leaves the rest: the other identifiers keep their membership and
\* relative order in displayIndex and filteredIndex, their rows and cached
\* values, and the filters and the sort state stay.
DeleteRemovesOnlyTheRow ==
  (last.op = "deleteRow" /\ last.ok) =>
    /\ last.id \notin DOMAIN rowMap \cup DOMAIN searchIndex
    /\ last.id \notin Range(displayIndex) \cup Range(filteredIndex)
    /\ \A c \in DOMAIN sortValues : last.id \notin DOMAIN sortValues[c]
    /\ Snapshot.totalRows = getCurrentState(pre.st).totalRows - 1
    /\ displayIndex = Without(pre.st.displayIndex, last.id)
    /\ filteredIndex = Without(pre.st.filteredIndex, last.id)
    /\ rowMap = MapDelete(pre.st.rowMap, last.id)
    /\ searchIndex = MapDelete(pre.st.searchIndex, last.id)
    /\ DOMAIN sortValues = DOMAIN pre.st.sortValues
    /\ \A c \in DOMAIN sortValues : sortValues[c] = MapDelete(pre.st.sortValues[c], last.id)
    /\ activeFilters = pre.st.activeFilters
    /\ currentSort = pre.st.currentSort

\* C13 witness: a row shown by a text search was deleted from a sorted store;
\* the rows the search hides stay hidden and rows remain.
DeleteRemovesOnlyTheRowWitness ==
  /\ last.op = "deleteRow" /\ last.ok
  /\ last.id \in Range(pre.st.filteredIndex)
  /\ searchQuery # <<>>
  /\ currentSort.direction # "none"
  /\ filteredIndex # <<>>
  /\ filteredIndex # FilteredByFilters

\* the filters of a sequence that are not on a column
OtherColumns(filters, column) == SelectSeq(filters, LAMBDA f : f.column # column)

\* C14: activeFilters holds at most one filter per column; addFilter(p)
\* leaves p as the only filter on its column, in place of an earlier one, and
\* the filters on other columns as they were.
ReplaceByColumn ==
  /\ \A i, j \in 1..Len(activeFilters) :
       activeFilters[i].column = activeFilters[j].column => i = j
  /\ last.op = "addFilter" =>
       LET p == [column |-> last.column, value |-> last.value, operator |-> last.operator]
       IN /\ \E i \in 1..Len(activeFilters) : activeFilters[i] = p
          /\ \A i \in 1..Len(activeFilters) :
               activeFilters[i].column = p.column => activeFilters[i] = p
          /\ OtherColumns(activeFilters, p.column) = OtherColumns(pre.st.activeFilters, p.column)

\* C14 witness: a filter replaced a different filter on its column while a
\* filter on another column was active.
ReplaceByColumnWitness ==
  /\ last.op = "addFilter"
  /\ \E i \in 1..Len(pre.st.activeFilters) :
       /\ pre.st.activeFilters[i].column = last.column
       /\ pre.st.activeFilters[i].operator # last.operator
  /\ OtherColumns(activeFilters, last.column) # <<>>
  /\ Len(activeFilters) = 2

\* C15: getVisibleRows(offset, limit) returns, in order, the rows of the
\* identifiers at the 0-based positions offset .. offset+limit-1 of
\* filteredIndex; for an offset at or beyond filteredCount and for a negative
\* offset it returns the empty sequence; it changes no field.
VisibleRowsWindow ==
  last.op = "getVisibleRows" =>
    LET offset == last.startIndex
        limit == last.pageSize
        count == Len(filteredIndex)
        size == IF offset + limit < count THEN limit ELSE count - offset
    IN /\ (offset >= 0 /\ offset < count) =>
            last.result = [i \in 1..size |-> rowMap[filteredIndex[offset + i]]]
       /\ (offset >= count \/ offset < 0) => last.result = <<>>
       /\ Fields = pre.st

SortedAmountAsc == last.op = "sortBy" /\ last.column = "amount" /\ last.direction = "asc"

FilteredAmountGt6 ==
  /\ last.op = "addFilter" /\ last.column = "amount" /\ last.operator = "gt"
  /\ last.value = Num(6)

\* C16: on the store of "1", "2", "3" with amounts 10, 5, 20:
\* sortBy(amount, asc) gives displayIndex "2","1","3"; then
\* addFilter(amount gt 6) gives filteredIndex "1","3"; then
\* updateCell("2", amount, "100") and sortBy(amount, asc) give displayIndex
\* and filteredIndex "1","3","2".
WorkedScenario ==
  /\ (nops = 1 /\ SortedAmountAsc) => displayIndex = << <<"2">>, <<"1">>, <<"3">> >>
  /\ (nops = 2 /\ FilteredAmountGt6 /\ pre.last.op = "sortBy"
        /\ currentSort = [column |-> "amount", direction |-> "asc"]) =>
       /\ displayIndex = << <<"2">>, <<"1">>, <<"3">> >>
       /\ filteredIndex = << <<"1">>, <<"3">> >>
  /\ (nops = 4 /\ SortedAmountAsc /\ pre.last.op = "updateCell"
        /\ pre.last.id = <<"2">> /\ pre.last.value = Str(<<"1", "0", "0">>)
        /\ pre.st.activeFilters = <<[column |-> "amount", value |-> Num(6), operator |-> "gt"]>>
        /\ pre.st.currentSort = [column |-> "amount", direction |-> "asc"]) =>
       /\ displayIndex = << <<"1">>, <<"3">>, <<"2">> >>
       /\ filteredIndex = << <<"1">>, <<"3">>, <<"2">> >>

\* C16 witness: the four calls of the scenario were made, the edit having met
\* the sorted store under the filter.
WorkedScenarioWitness ==
  /\ nops = 4 /\ SortedAmountAsc
  /\ pre.last.op = "updateCell" /\ pre.last.id = <<"2">>
  /\ pre.last.value = Str(<<"1", "0", "0">>)
  /\ pre.st.activeFilters = <<[column |-> "amount", value |-> Num(6), operator |-> "gt"]>>
  /\ pre.st.currentSort = [column |-> "amount", direction |-> "asc"]
  /\ Get(rowMap[<<"2">>], "amount") = Str(<<"1", "0", "0">>)
  /\ Len(filteredIndex) = 3

\* a value that cannot be coerced to the timestamp or number of a typed column
Unparsable(column, value) ==
  \/ column \in Range(DATE_COLUMNS) /\ IsNaN(DateGetTime(value))
  \/ column \in Range(NUMERIC_COLUMNS) /\ IsNaN(ToNumber(value))

\* the entry of (column, id) in a sortValues map: whether there is one, and which
CachedKey(sv, column, id) ==
  IF column \in DOMAIN sv /\ id \in DOMAIN sv[column]
  THEN <<TRUE, sv[column][id]>> ELSE <<FALSE>>

\* C17: updateCell(id, col, v) with col a date or numeric column and v not
\* coercible to a timestamp or number returns a state, stores v in the row,
\* and leaves the sortValues entry of (col, id) as it was before the call.
UnparsableKeepsCachedKey ==
  (/\ last.op = "updateCell" /\ last.id \in DOMAIN pre.st.rowMap
   /\ Unparsable(last.column, last.value)) =>
    /\ last.ok
    /\ Get(rowMap[last.id], last.column) = last.value
    /\ CachedKey(sortValues, last.column, last.id) =
         CachedKey(pre.st.sortValues, last.column, last.id)

\* the last call was handleSort on a column of the data
SortedDataColumn ==
  last.op = "handleSort" /\ last.columnIndex \in 1..Len(columns)

\* C18: handleSort on the hook's sort column steps its direction none -> asc
\* -> dsc -> none; handleSort on another column sets that column to asc; and
\* after handleSort the manager's currentSort has the hook's column and
\* direction.
SortCycle ==
  SortedDataColumn =>
    LET column == columns[last.columnIndex]
    IN /\ ctl.sortField = column
       /\ (preCtl.sortField = column /\ preCtl.sortDirection = "none") => ctl.sortDirection = "asc"
       /\ (preCtl.sortField = column /\ preCtl.sortDirection = "asc") => ctl.sortDirection = "dsc"
       /\ (preCtl.sortField = column /\ preCtl.sortDirection = "dsc") => ctl.sortDirection = "none"
       /\ preCtl.sortField # column => ctl.sortDirection = "asc"
       /\ currentSort.column = ctl.sortField
       /\ currentSort.direction = (IF ctl.sortDirection = "dsc" THEN "desc" ELSE ctl.sortDirection)

\* C18 witness: three calls of handleSort on one column took it from no sort
\* through asc and dsc back to none, the rows having been reordered.
SortCycleWitness ==
  /\ nops = 3 /\ SortedDataColumn
  /\ pre.last.op = "handleSort" /\ pre.last.columnIndex = last.columnIndex
  /\ preCtl.sortDirection = "dsc" /\ ctl.sortDirection = "none"
  /\ pre.st.displayIndex # displayIndex

\* the calls of the hook that change the search text or the filters
SearchOrFilterTrigger ==
  \/ last.op = "setSearchQuery" /\ last.query # preCtl.searchQuery
  \/ last.op \in {"hook.addFilter", "hook.removeFilter", "hook.clearFilters"}

\* C19: after handleSort, after a change of the search text, and after
\* addFilter, removeFilter and clearFilters of the hook, currentPage is 0.
PaginationReset ==
  (last.op = "handleSort" \/ SearchOrFilterTrigger) => ctl.currentPage = 0

\* C20: a change of the search text and addFilter, removeFilter and
\* clearFilters of the hook leave the hook's sort column and direction, the
\* manager's currentSort and the selected identifiers as they were.
SearchAndFiltersKeepSortAndSelection ==
  SearchOrFilterTrigger =>
    /\ ctl.sortField = preCtl.sortField
    /\ ctl.sortDirection = preCtl.sortDirection
    /\ currentSort = pre.st.currentSort
    /\ ctl.selectedIds = preCtl.selectedIds

\* C20 witness: every row shown under a filter was selected, then the filter
\* was removed from a sorted store: rows are shown that are not selected.
SearchAndFiltersKeepSortAndSelectionWitness ==
  /\ last.op = "hook.removeFilter"
  /\ pre.last.op = "toggleSelectAll"
  /\ ctl.selectedIds # <<>>
  /\ Range(ctl.selectedIds) = Range(pre.st.filteredIndex)
  /\ Range(filteredIndex) \ Range(ctl.selectedIds) # {}
  /\ currentSort.direction # "none"

\* the last page of the view the hook shows: page 0 when no row is shown
LastPage ==
  LET limit == maxPage(ctl.gridState.filteredCount, ctl.pageSize)
  IN IF limit < 0 THEN 0 ELSE limit

\* C21: goToPage(p) leaves currentPage at p clamped into the pages of the
\* view, nextPage and prevPage never leave currentPage below 0 or above the
\* last page (also when no row is shown), and setPageSize(s) leaves
\* currentPage no greater than the last page for the new size.
PageBounds ==
  /\ last.op = "goToPage" =>
        ctl.currentPage = (IF last.page < 0 THEN 0
                           ELSE IF last.page > LastPage THEN LastPage ELSE last.page)
  /\ last.op \in {"nextPage", "prevPage"} =>
        ctl.currentPage >= 0 /\ ctl.currentPage <= LastPage
  /\ last.op = "setPageSize" =>
        ctl.pageSize = last.pageSize /\ ctl.currentPage <= LastPage

\* the identifiers shown by the rows of a snapshot's filteredRows, in order
ShownIds(gridState) ==
  [i \in 1..Len(gridState.filteredRows) |->
     JsString(Get(gridState.filteredRows[i], idField))]

\* C22: toggleSelectAll called with an empty selection makes the selection
\* the identifiers of the snapshot's filteredRows, and called when the
\* selection is exactly that set it empties the selection; the snapshot is
\* left as it was.
SelectAllOverFilteredView ==
  last.op = "toggleSelectAll" =>
    /\ ctl.gridState = preCtl.gridState
    /\ preCtl.selectedIds = <<>> => ctl.selectedIds = ShownIds(preCtl.gridState)
    /\ ( /\ Range(preCtl.selectedIds) = Range(ShownIds(preCtl.gridState))
         /\ Len(preCtl.selectedIds) = Len(preCtl.gridState.filteredRows) )
       => ctl.selectedIds = <<>>

\* toggleSelectAll called twice over a view that hides a row of the store:
\* the first call selected the rows shown, the second emptied the selection
SelectAllOverFilteredViewWitness ==
  /\ last.op = "toggleSelectAll"
  /\ pre.last.op = "toggleSelectAll"
  /\ preCtl.selectedIds = ShownIds(preCtl.gridState)
  /\ preCtl.selectedIds # <<>>
  /\ ctl.selectedIds = <<>>
  /\ ctl.gridState.filteredCount < ctl.gridState.totalRows

\* a call of the hook that the manager answered with null
EngineRefused ==
  /\ last.op \in {"hook.updateCell", "hook.deleteRow", "hook.addRow"}
  /\ ~last.ok

\* C23: when updateCell or deleteRow of the hook is given an identifier that
\* is not stored, or addRow a row whose identifier is stored, the snapshot,
\* the selection, the page and the sort state of the hook are what they were
\* before the call, and so is the manager.
EngineFailuresAreNoOps ==
  EngineRefused =>
    /\ ctl.gridState = preCtl.gridState
    /\ ctl.selectedIds = preCtl.selectedIds
    /\ ctl.currentPage = preCtl.currentPage
    /\ ctl.pageSize = preCtl.pageSize
    /\ ctl.sortField = preCtl.sortField
    /\ ctl.sortDirection = preCtl.sortDirection
    /\ Fields = pre.st

\* deleteRow of the hook refused for an identifier that is not stored, while
\* rows are selected and the page shown is not the first
EngineFailuresAreNoOpsWitness ==
  /\ EngineRefused
  /\ last.op = "hook.deleteRow"
  /\ last.id \notin DOMAIN pre.st.rowMap
  /\ ctl.selectedIds # <<>>
  /\ ctl.currentPage > 0

\* the place of a stored identifier in the order of insertion
InsertionPlace(id) == CHOOSE i \in 1..Len(rowKeys) : rowKeys[i] = id

\* two stored identifiers have equal comparison keys for a column: neither
\* key is NaN and the comparator answers 0
EqualKeys(column, direction, idA, idB) ==
  /\ SortKey(column, idA).t # "nan"
  /\ SortKey(column, idB).t # "nan"
  /\ compareRows(Fields, column, direction, idA, idB) = 0

\* C24: right after sortBy(c, d) with d ascending or descending, any two
\* identifiers with equal comparison keys for c stand in displayIndex in the
\* order of their insertion, whatever sortBy calls came before.
TieBreakByInsertionOrder ==
  (last.op = "sortBy" /\ last.direction \in {"asc", "desc"}) =>
    \A i, j \in 1..Len(displayIndex) :
      ( /\ i < j
        /\ EqualKeys(last.column, last.direction, displayIndex[i], displayIndex[j]) )
      => InsertionPlace(displayIndex[i]) <= InsertionPlace(displayIndex[j])

\* a sequence of identifiers in ascending lexicographic order
Lexicographic(ids) ==
  \A i \in 1..(Len(ids) - 1) : LocaleCompare(ids[i], ids[i + 1]) <= 0

\* C25: when the latest sortBy was sortBy(c, none) and displayIndex is in
\* lexicographic order of its identifiers, an addRow, updateCell or deleteRow
\* that follows leaves displayIndex in lexicographic order (a new identifier
\* stands at its lexicographic place, not at the end).
OrderUnderNoneMaintained ==
  ( /\ last.op \in {"addRow", "updateCell", "deleteRow"}
    /\ pre.st.currentSort.direction = "none"
    /\ pre.st.currentSort.column # NullColumn
    /\ Lexicographic(pre.st.displayIndex)
    /\ currentSort.direction = "none" )
  => Lexicographic(displayIndex)

\* the record stored under id has no value for a column: absent, null or empty
LacksValue(column, id) ==
  LET v == Get(rowMap[id], column)
  IN v.t \in {"undefined", "null"} \/ v = Str(<<>>)

\* the key a record is to be ordered by: 0 when it lacks a value for the
\* column, the comparison key sortBy reads otherwise
ZeroPointKey(column, id) ==
  IF LacksValue(column, id) THEN Num(0) ELSE SortKey(column, id)

\* C26: right after sortBy(c, d) on a typed column c, displayIndex is in the
\* order of d with every record that lacks a value for c (inserted without
\* one, or cleared by updateCell) standing where the key 0 stands; no key
\* computed from an earlier value of the cell decides its place.
LackingValueSortsAtZero ==
  ( /\ last.op = "sortBy"
    /\ last.direction \in {"asc", "desc"}
    /\ last.column \in DOMAIN sortValues )
  => \A i \in 1..(Len(displayIndex) - 1) :
       LET ka == ZeroPointKey(last.column, displayIndex[i])
           kb == ZeroPointKey(last.column, displayIndex[i + 1])
       IN IF last.direction = "asc" THEN KeyNotAfter(ka, kb) ELSE KeyNotAfter(kb, ka)

\* the text of a record's searchable columns: each current value in lower
\* case, a missing value as the empty text, joined by single spaces
SearchableText(row) ==
  JoinSpace([i \in 1..Len(SEARCHABLE_COLUMNS) |->
               LET v == Get(row, SEARCHABLE_COLUMNS[i])
               IN IF v.t \in {"undefined", "null"} THEN <<>>
                  ELSE ToLowerCase(JsString(v))])

SameContents(a, b) ==
  /\ Len(a) = Len(b)
  /\ \A id \in Range(a) \cup Range(b) :
       Cardinality({i \in 1..Len(a) : a[i] = id}) = Cardinality({i \in 1..Len(b) : b[i] = id})

\* C28: updateCell(id, idField, v) on a stored id succeeds, leaves the keys
\* of rowMap and the contents of displayIndex as they were, and keeps the
\* edited record, now showing v, under the key id; updateCell and deleteRow
\* find a record by its key alone, so after the edit they find the record
\* under id and not under v.
IdentifierEditDoesNotRekey ==
  /\ ( /\ last.op = "updateCell"
       /\ last.column = idField
       /\ last.id \in DOMAIN pre.st.rowMap )
     => /\ last.ok
        /\ DOMAIN rowMap = DOMAIN pre.st.rowMap
        /\ SameContents(displayIndex, pre.st.displayIndex)
        /\ rowMap[last.id] = MapSet(pre.st.rowMap[last.id], idField, last.value)
  /\ last.op \in {"updateCell", "deleteRow"} =>
        (last.ok <=> last.id \in DOMAIN pre.st.rowMap)

\* after updateCell('1', idField, '9'), deleteRow('9') is refused: the
\* record that shows '9' is still stored under '1'
IdentifierEditDoesNotRekeyWitness ==
  /\ pre.last.op = "updateCell" /\ pre.last.column = idField /\ pre.last.ok
  /\ last.op = "deleteRow" /\ ~last.ok
  /\ last.id = JsString(pre.last.value)
  /\ pre.last.id \in DOMAIN rowMap
  /\ Get(rowMap[pre.last.id], idField) = pre.last.value

\* the identifier a stored record shows: the text of its id field
ShownId(st, id) == JsString(Get(st.rowMap[id], idField))

\* C29: in every state each record of rowMap is stored under the text of
\* its own id field, so no two records show the same identifier, and addRow
\* refuses a record exactly when a stored record shows its identifier.
KeyValueAgreement ==
  /\ \A id \in DOMAIN rowMap : ShownId(Fields, id) = id
  /\ \A a, b \in DOMAIN rowMap : ShownId(Fields, a) = ShownId(Fields, b) => a = b
  /\ last.op = "addRow" =>
        (~last.ok <=> \E id \in DOMAIN pre.st.rowMap : ShownId(pre.st, id) = last.id)

\* the filter of the last call with the operator equals in its place
AsEquals == [column |-> last.column, value |-> last.value, operator |-> "eq"]

\* C30: a filter whose operator is none of the seven is accepted and
\* filters as the equals filter on the same column and value would, both
\* when it is added through addFilter of the hook and when the manager
\* evaluates it.
UnsupportedOperatorIsEquals ==
  /\ (last.op = "addFilter" /\ last.operator \notin ValidOperators) =>
        /\ Len(activeFilters) > 0
        /\ activeFilters[Len(activeFilters)].column = last.column
        /\ filteredIndex = addFilter(pre.st, AsEquals).filteredIndex
  /\ (last.op = "hook.addFilter" /\ last.operator \notin ValidOperators) =>
        /\ Len(activeFilters) > 0
        /\ activeFilters[Len(activeFilters)].column = last.column
        /\ filteredIndex = addFilter(pre.st, AsEquals).filteredIndex
        /\ ctl.gridState = getCurrentState(addFilter(pre.st, AsEquals))

\* C31: handleSort(0), the index of the selection column, changes neither
\* sortField and sortDirection of the hook nor currentSort and displayIndex
\* of the manager; an index in 1..N sorts by columns[index - 1].
SelectionColumnNotSortable ==
  /\ (last.op = "handleSort" /\ last.columnIndex = 0) =>
        /\ ctl.sortField = preCtl.sortField
        /\ ctl.sortDirection = preCtl.sortDirection
        /\ currentSort = pre.st.currentSort
        /\ displayIndex = pre.st.displayIndex
  /\ (last.op = "handleSort" /\ last.columnIndex \in 1..Len(columns)) =>
        /\ ctl.sortField = columns[last.columnIndex]
        /\ currentSort.column = columns[last.columnIndex]

\* C32: the rows a call returned are copies: no later call of the manager
\* changes what a held row shows (it shows what a copy taken at the return
\* shows, the caller's own writes included), and a write of the caller into
\* a held row leaves rowMap as it was.
SnapshotsAreIsolatedCopies ==
  /\ \A i \in 1..Len(held) : held[i].row = held[i].copy
  /\ last.op = "write" => rowMap = pre.st.rowMap

\* C33: in every state of the hook, whatever handlers were called (deleteRow,
\* updateCell and addRow included), 0 <= currentPage <= max(0,
\* ceil(filteredCount / pageSize) - 1).
CurrentPageStaysValid ==
  ctl.currentPage >= 0 /\ ctl.currentPage <= LastPage

\* C34: isAllSelected is true only when every identifier of the filtered
\* view is selected, and toggleSelectAll empties the selection only then; a
\* selection that merely has as many identifiers as the view does not count.
AllSelectedMeansAllSelected ==
  /\ isAllSelected(Hook) =>
        Range(ShownIds(ctl.gridState)) \subseteq Range(ctl.selectedIds)
  /\ (last.op = "toggleSelectAll" /\ ctl.selectedIds = <<>>) =>
        Range(ShownIds(preCtl.gridState)) \subseteq Range(preCtl.selectedIds)

====
